---- MODULE Spec2Model ----
(***************************************************************************)
(* binexpr: a recursive-descent parser that turns a flat token sequence    *)
(* (identifiers, + - * / ^, parentheses) into a tree, reconciling operator *)
(* precedence by rotating the already-parsed right-hand subtree.           *)
(*                                                                         *)
(* The functions of src/main.rs are modelled as operators (parse,          *)
(* parse_enclosed, compose_with_precedence); a Rust panic is modelled as a *)
(* value Panic(msg) that every caller propagates in evaluation order.      *)
(***************************************************************************)
EXTENDS Integers, Sequences, FiniteSets, TLC

\* call:   the call under check, its function and arguments
\* result: the value it returned or the panic it ended with
\* pc:     "start" before the call, "run" while it executes, "done" after
\* stack:  the activation records of the call, innermost last
VARIABLES call, result, pc, stack

vars == <<call, result, pc, stack>>

\* the token slice handed to parse
toks == call.toks

(***************************************************************************)
(* Bounds of the checked input families.                                   *)
(***************************************************************************)
\* longest unrestricted token sequence
MaxLen == 5
\* most operands in an ungrouped chain  x1 o1 x2 ... xn
MaxChain == 4
\* most operands of the chain placed inside a group
MaxInner == 2
\* most nodes of the tree `into` handed to compose_with_precedence
MaxIntoSize == 5
\* most nodes of the tree `left` handed to compose_with_precedence
MaxLeftSize == 2
\* longest unrestricted token sequence executed step by step
MaxStepLen == 4

(***************************************************************************)
(* enum Operator                                                           *)
(***************************************************************************)
Operator == {"Add", "Sub", "Mul", "Div", "Exp"}

precedence(op) ==
    CASE op \in {"Add", "Sub"} -> 10
      [] op \in {"Mul", "Div"} -> 100
      [] op = "Exp" -> 1000

\* Option<Operator>: the operator, or "None"
MaybeMutDiv(s) ==
    CASE s = "+" -> "Add"
      [] s = "-" -> "Sub"
      [] s = "*" -> "Mul"
      [] s = "/" -> "Mul"
      [] s = "^" -> "Exp"
      [] OTHER -> "None"
maybe(s) ==
    CASE s = "+" -> "Add"
      [] s = "-" -> "Sub"
      [] s = "*" -> "Mul"
      [] s = "/" -> "Div"
      [] s = "^" -> "Exp"
      [] OTHER -> "None"

\* std::cmp::Ordering of the two ranks
CmpPrecedenceMutNoEqual(op, other) ==
    IF precedence(op) < precedence(other) THEN "Less" ELSE "Greater"
cmp_precedence(op, other) ==
    IF precedence(op) < precedence(other) THEN "Less"
    ELSE IF precedence(op) = precedence(other) THEN "Equal"
    ELSE "Greater"

(***************************************************************************)
(* enum Node                                                               *)
(***************************************************************************)
Operation(op, left, right) ==
    [kind |-> "Operation", op |-> op, left |-> left, right |-> right]

Enclosure(inner) == [kind |-> "Enclosure", inner |-> inner]

Leaf(s) == [kind |-> "Leaf", val |-> s]

(***************************************************************************)
(* panic!(msg): the messages of main.rs                                    *)
(***************************************************************************)
Panic(msg) == [kind |-> "Panic", msg |-> msg]

EmptyStream == "empty token stream"
LeadingOperator == "operator found at beginning of token stream. unary operators not supported."
UnmatchedClose == "unmatched close brace"
UnmatchedOpen == "unmatched open brace"
ExpectedOperator == "operator expected after leaf node"

IsPanic(v) == v.kind = "Panic"

(***************************************************************************)
(* fn compose_with_precedence(op, left, into)                              *)
(***************************************************************************)
\* the arm of the inner match that rotates: Ordering::Greater
RotatesMutEqual(op, subnode_op) == cmp_precedence(op, subnode_op) \in {"Greater", "Equal"}
RotatesMutLess(op, subnode_op) == cmp_precedence(op, subnode_op) = "Less"
Rotates(op, subnode_op) == cmp_precedence(op, subnode_op) = "Greater"

\* the arm of the outer match that looks inside `into`: Node::Operation
MatchesOperationMutNever(into) == FALSE
MatchesOperation(into) == into.kind = "Operation"

\* the tree the recursive call descends into: *subnode_left
DescendIntoMutSelf(into) == into
DescendInto(into) == into.left

RECURSIVE compose_with_precedence(_, _, _)
ComposeMutRight(op, left, into) ==
    IF MatchesOperation(into)
    THEN IF Rotates(op, into.op)
         THEN Operation(into.op,
                        into.left,
                        compose_with_precedence(op, left, into.right))
         ELSE Operation(op, left, Operation(into.op, into.left, into.right))
    ELSE Operation(op, left, into)
compose_with_precedence(op, left, into) ==
    IF MatchesOperation(into)
    THEN IF Rotates(op, into.op)
         THEN Operation(into.op,
                        compose_with_precedence(op, left, DescendInto(into)),
                        into.right)
         ELSE Operation(op, left, Operation(into.op, into.left, into.right))
    ELSE Operation(op, left, into)

(***************************************************************************)
(* fn parse_enclosed: the search for the matching closing brace            *)
(***************************************************************************)
\* the loop of lines 82-94 from index i on with `open` braces pending;
\* indices are 1-based here, 0 stands for close_pos = None
RECURSIVE search_close(_, _, _)
SearchCloseMutFirst(ts, i, open) ==
    IF i > Len(ts) THEN 0
    ELSE IF ts[i] = ")" THEN i
    ELSE search_close(ts, i + 1, open)
search_close(ts, i, open) ==
    IF i > Len(ts) THEN 0
    ELSE IF ts[i] = "(" THEN search_close(ts, i + 1, open + 1)
    ELSE IF ts[i] = ")"
         THEN IF open - 1 = 0 THEN i
              ELSE search_close(ts, i + 1, open - 1)
    ELSE search_close(ts, i + 1, open)

close_pos(ts) == search_close(ts, 1, 1)

\* toks.split_at(close_pos).0
InnerOf(ts, cp) == SubSeq(ts, 1, cp - 1)
\* after.split_first().unwrap().1, the closing brace skipped
AfterOfMutSkipTwo(ts, cp) == SubSeq(ts, cp + 2, Len(ts))
AfterOf(ts, cp) == SubSeq(ts, cp + 1, Len(ts))

(***************************************************************************)
(* fn parse, fn parse_enclosed                                             *)
(***************************************************************************)
RECURSIVE parse(_)
RECURSIVE parse_enclosed(_)

\* lines 63-71: what parse does once the first term `left` is built
ParseTailMutOrder(left, rest) ==
    IF rest = <<>> THEN left
    ELSE LET op == maybe(Head(rest))
             into == parse(Tail(rest))
         IN  IF IsPanic(into) THEN into
             ELSE IF op = "None" THEN Panic(ExpectedOperator)
             ELSE compose_with_precedence(op, left, into)
parse_tail(left, rest) ==
    IF rest = <<>> THEN left
    ELSE LET op == maybe(Head(rest))
         IN  IF op = "None" THEN Panic(ExpectedOperator)
             ELSE LET into == parse(Tail(rest))
                  IN  IF IsPanic(into) THEN into
                      ELSE compose_with_precedence(op, left, into)

parse(ts) ==
    IF ts = <<>> THEN Panic(EmptyStream)
    ELSE LET first == Head(ts)
             rest  == Tail(ts)
         IN  IF maybe(first) # "None" THEN Panic(LeadingOperator)
             ELSE IF first = ")" THEN Panic(UnmatchedClose)
             ELSE IF first = "("
                  THEN LET e == parse_enclosed(rest)
                       IN  IF IsPanic(e) THEN e
                           ELSE parse_tail(e.node, e.rest)
             ELSE parse_tail(Leaf(first), rest)

\* returns Panic(..) or the pair (node, rest) as [kind |-> "Pair", ...]
parse_enclosed(ts) ==
    LET cp == close_pos(ts)
    IN  IF cp = 0 THEN Panic(UnmatchedOpen)
        ELSE LET inner == parse(InnerOf(ts, cp))
             IN  IF IsPanic(inner) THEN inner
                 ELSE [kind |-> "Pair",
                       node |-> Enclosure(inner),
                       rest |-> AfterOf(ts, cp)]

(***************************************************************************)
(* Inputs.                                                                 *)
(***************************************************************************)
OpSymbols == {"+", "-", "*", "/", "^"}
Idents == {"a", "b"}
Alphabet == Idents \cup OpSymbols \cup {"(", ")"}

\* every token sequence of at most MaxLen tokens
TokSeqs == UNION {[1..n -> Alphabet] : n \in 0..MaxLen}

\* the i-th operand of a chain
Names == <<"a", "b", "c", "d", "e", "f", "g", "h">>

\* x1 o1 x2 ... xn with the operators drawn from OpSymbols, operands named
\* from the k-th name on
RECURSIVE ChainsFrom(_, _)
ChainsFrom(k, n) ==
    IF n = 1 THEN {<<Names[k]>>}
    ELSE {<<Names[k], o>> \o c : o \in OpSymbols, c \in ChainsFrom(k + 1, n - 1)}

Chains == UNION {ChainsFrom(1, n) : n \in 1..MaxChain}

\* a chain in a group, alone, doubly wrapped, or as one operand of an operator
Inners == UNION {ChainsFrom(2, n) : n \in 1..MaxInner}
Grouped ==
    {<<"(">> \o x \o <<")">> : x \in Inners}
    \cup {<<"(", "(">> \o x \o <<")", ")">> : x \in Inners}
    \cup {<<"(">> \o x \o <<")", o, "z">> : x \in Inners, o \in OpSymbols}
    \cup {<<"a", o, "(">> \o x \o <<")">> : x \in Inners, o \in OpSymbols}

Inputs == TokSeqs \cup Chains \cup Grouped

NoResult == [kind |-> "None"]

ParseCall(ts) == [fn |-> "parse", toks |-> ts]

(***************************************************************************)
(* The program: one call of parse on a token slice.                        *)
(***************************************************************************)
Init ==
    /\ call \in {ParseCall(ts) : ts \in Inputs}
    /\ result = NoResult
    /\ pc = "start"
    /\ stack = <<>>

Parse ==
    /\ pc = "start"
    /\ call.fn = "parse"
    /\ result' = parse(call.toks)
    /\ pc' = "done"
    /\ UNCHANGED <<call, stack>>

Next == Parse

Spec == Init /\ [][Next]_vars

(***************************************************************************)
(* The composer on its own: one call of compose_with_precedence on trees   *)
(* that need not come from the parser.                                     *)
(***************************************************************************)
\* the trees of exactly n nodes with leaves named from L
RECURSIVE TreesOfSize(_, _)
TreesOfSize(n, L) ==
    IF n = 1 THEN {Leaf(x) : x \in L}
    ELSE {Enclosure(t) : t \in TreesOfSize(n - 1, L)}
         \cup UNION {
                {Operation(o, l, r) :
                    o \in Operator,
                    l \in TreesOfSize(k, L),
                    r \in TreesOfSize(n - 1 - k, L)}
                : k \in 1..(n - 2)}

TreesUpTo(n, L) == UNION {TreesOfSize(k, L) : k \in 1..n}

ComposeCall(op, left, into) ==
    [fn |-> "compose_with_precedence", op |-> op, left |-> left, into |-> into]

ComposeCalls ==
    {ComposeCall(op, left, into) :
        op \in Operator,
        left \in TreesUpTo(MaxLeftSize, {"l"}),
        into \in TreesUpTo(MaxIntoSize, {"p", "q"})}

InitCompose ==
    /\ call \in ComposeCalls
    /\ result = NoResult
    /\ pc = "start"
    /\ stack = <<>>

Compose ==
    /\ pc = "start"
    /\ call.fn = "compose_with_precedence"
    /\ result' = compose_with_precedence(call.op, call.left, call.into)
    /\ pc' = "done"
    /\ UNCHANGED <<call, stack>>

NextCompose == Compose

SpecCompose == InitCompose /\ [][NextCompose]_vars

(***************************************************************************)
(* The same calls executed one activation record at a time, so that the    *)
(* recursion of parse, parse_enclosed and compose_with_precedence is       *)
(* visible.  A record holds the function, its arguments and locals, and    *)
(* `at`, the place its execution has reached.  Only the innermost record   *)
(* runs; a callee hands its value to the caller through `result`; a panic  *)
(* unwinds the whole stack.                                                *)
(***************************************************************************)
Top(st) == st[Len(st)]
Pop(st) == SubSeq(st, 1, Len(st) - 1)

ParseFrame(ts) ==
    [fn |-> "parse", at |-> "entry", toks |-> ts,
     left |-> NoResult, rest |-> <<>>, op |-> "None"]

EnclosedFrame(ts) ==
    [fn |-> "parse_enclosed", at |-> "entry", toks |-> ts, after |-> <<>>]

ComposeFrame(op, left, into) ==
    [fn |-> "compose_with_precedence", at |-> "entry",
     op |-> op, left |-> left, into |-> into]

\* every token sequence of at most MaxStepLen tokens
StepTokSeqs == UNION {[1..n -> Alphabet] : n \in 0..MaxStepLen}

\* the composer is entered with a leaf as `left`, which it never inspects
StepComposeCalls ==
    {ComposeCall(op, Leaf("l"), into) :
        op \in Operator, into \in TreesUpTo(MaxIntoSize, {"p", "q"})}

StepCalls ==
    {ParseCall(ts) : ts \in StepTokSeqs \cup Chains \cup Grouped}
    \cup StepComposeCalls

InitSteps ==
    /\ call \in StepCalls
    /\ result = NoResult
    /\ pc = "start"
    /\ stack = <<>>

Running(fn, at) ==
    /\ pc = "run"
    /\ Top(stack).fn = fn
    /\ Top(stack).at = at

\* the innermost record goes on as f
Goto(f) ==
    /\ stack' = [stack EXCEPT ![Len(stack)] = f]
    /\ result' = NoResult
    /\ pc' = "run"

\* the innermost record goes on as f and calls g
CallFrom(f, g) ==
    /\ stack' = Append([stack EXCEPT ![Len(stack)] = f], g)
    /\ result' = NoResult
    /\ pc' = "run"

\* the innermost record returns v to its caller
Return(v) ==
    /\ stack' = Pop(stack)
    /\ result' = v
    /\ pc' = IF Len(stack) = 1 THEN "done" ELSE "run"

\* panic!(msg)
PanicWith(msg) ==
    /\ stack' = <<>>
    /\ result' = Panic(msg)
    /\ pc' = "done"

\* the call is entered
Enter ==
    /\ pc = "start"
    /\ stack' = <<IF call.fn = "parse"
                  THEN ParseFrame(call.toks)
                  ELSE ComposeFrame(call.op, call.left, call.into)>>
    /\ pc' = "run"
    /\ UNCHANGED <<call, result>>

\* parse, lines 49-61: the first term
ParseEntry ==
    /\ Running("parse", "entry")
    /\ LET f == Top(stack)
       IN  IF f.toks = <<>> THEN PanicWith(EmptyStream)
           ELSE LET first == Head(f.toks)
                    rest  == Tail(f.toks)
                IN  IF maybe(first) # "None" THEN PanicWith(LeadingOperator)
                    ELSE IF first = ")" THEN PanicWith(UnmatchedClose)
                    ELSE IF first = "("
                         THEN CallFrom([f EXCEPT !.at = "enclosed"], EnclosedFrame(rest))
                    ELSE Goto([f EXCEPT !.at = "tail", !.left = Leaf(first), !.rest = rest])
    /\ UNCHANGED call

\* parse, line 59: parse_enclosed(rest) has returned (left, rest)
ParseEnclosed ==
    /\ Running("parse", "enclosed")
    /\ Goto([Top(stack) EXCEPT !.at = "tail", !.left = result.node, !.rest = result.rest])
    /\ UNCHANGED call

\* parse, lines 63-70: return left, or read the operator and parse the rest
ParseTail ==
    /\ Running("parse", "tail")
    /\ LET f == Top(stack)
       IN  IF f.rest = <<>> THEN Return(f.left)
           ELSE LET op == maybe(Head(f.rest))
                IN  IF op = "None" THEN PanicWith(ExpectedOperator)
                    ELSE CallFrom([f EXCEPT !.at = "into", !.op = op],
                                  ParseFrame(Tail(f.rest)))
    /\ UNCHANGED call

\* parse, line 70: parse(rest) has returned `into`; compose
ParseInto ==
    /\ Running("parse", "into")
    /\ LET f == Top(stack)
       IN  CallFrom([f EXCEPT !.at = "composed"], ComposeFrame(f.op, f.left, result))
    /\ UNCHANGED call

\* parse, line 70: the composed tree is the value of parse
ParseComposed ==
    /\ Running("parse", "composed")
    /\ Return(result)
    /\ UNCHANGED call

\* parse_enclosed, lines 78-101: find the closing brace, parse the interior
EnclosedEntry ==
    /\ Running("parse_enclosed", "entry")
    /\ LET f  == Top(stack)
           cp == close_pos(f.toks)
       IN  IF cp = 0 THEN PanicWith(UnmatchedOpen)
           ELSE CallFrom([f EXCEPT !.at = "inner", !.after = AfterOf(f.toks, cp)],
                         ParseFrame(InnerOf(f.toks, cp)))
    /\ UNCHANGED call

\* parse_enclosed, lines 100-103: wrap the interior, hand back what follows
EnclosedInner ==
    /\ Running("parse_enclosed", "inner")
    /\ Return([kind |-> "Pair", node |-> Enclosure(result), rest |-> Top(stack).after])
    /\ UNCHANGED call

\* compose_with_precedence, lines 109-136
ComposeEntry ==
    /\ Running("compose_with_precedence", "entry")
    /\ LET f == Top(stack)
       IN  IF MatchesOperation(f.into)
           THEN IF Rotates(f.op, f.into.op)
                THEN CallFrom([f EXCEPT !.at = "left"],
                              ComposeFrame(f.op, f.left, DescendInto(f.into)))
                ELSE Return(Operation(f.op, f.left,
                                Operation(f.into.op, f.into.left, f.into.right)))
           ELSE Return(Operation(f.op, f.left, f.into))
    /\ UNCHANGED call

\* compose_with_precedence, lines 124-128: the rotated node
ComposeLeft ==
    /\ Running("compose_with_precedence", "left")
    /\ LET f == Top(stack)
       IN  Return(Operation(f.into.op, result, f.into.right))
    /\ UNCHANGED call

NextSteps ==
    \/ Enter
    \/ ParseEntry
    \/ ParseEnclosed
    \/ ParseTail
    \/ ParseInto
    \/ ParseComposed
    \/ EnclosedEntry
    \/ EnclosedInner
    \/ ComposeEntry
    \/ ComposeLeft

\* a call that has started keeps running until it returns or panics
SpecSteps == InitSteps /\ [][NextSteps]_vars /\ WF_vars(NextSteps)

(***************************************************************************)
(* Vocabulary of the properties.                                           *)
(***************************************************************************)
IsIdent(s) == maybe(s) = "None" /\ s \notin {"(", ")"}

IsTree(v) == v.kind \in {"Leaf", "Enclosure", "Operation"}

Done == pc = "done"

\* x1 o1 x2 ... xn: identifiers at the odd places, operators at the even ones
IsChain(ts) ==
    /\ Len(ts) % 2 = 1
    /\ \A i \in 1..Len(ts) :
          IF i % 2 = 1 THEN IsIdent(ts[i]) ELSE maybe(ts[i]) # "None"

ChainOps(ts) == {maybe(ts[i]) : i \in {j \in 1..Len(ts) : j % 2 = 0}}

SameRank(ts) == \A o1 \in ChainOps(ts), o2 \in ChainOps(ts) : precedence(o1) = precedence(o2)

\* Operation(o1, Leaf(x1), Operation(o2, Leaf(x2), ... Leaf(xn)))
RECURSIVE RightNested(_)
RightNested(ts) ==
    IF Len(ts) = 1 THEN Leaf(ts[1])
    ELSE Operation(maybe(ts[2]), Leaf(ts[1]), RightNested(SubSeq(ts, 3, Len(ts))))

(***************************************************************************)
(* C1. Two operators of different rank: a o1 b o2 c parses, and the        *)
(* tighter-binding operator is grouped first: o1 looser than o2 gives      *)
(* Operation(o1, a, Operation(o2, b, c)); o1 tighter than o2 gives         *)
(* Operation(o2, Operation(o1, a, b), c).                                  *)
(***************************************************************************)
C1_PrecedenceGrouping ==
    (Done /\ IsChain(toks) /\ Len(toks) = 5
          /\ precedence(maybe(toks[2])) # precedence(maybe(toks[4])))
    => LET a == Leaf(toks[1])
           b == Leaf(toks[3])
           c == Leaf(toks[5])
           o1 == maybe(toks[2])
           o2 == maybe(toks[4])
       IN  result = IF precedence(o1) < precedence(o2)
                    THEN Operation(o1, a, Operation(o2, b, c))
                    ELSE Operation(o2, Operation(o1, a, b), c)

C1_Witness ==
    /\ Done
    /\ toks = <<"a", "*", "b", "+", "c">>
    /\ result = Operation("Add", Operation("Mul", Leaf("a"), Leaf("b")), Leaf("c"))

(***************************************************************************)
(* C5. A chain of n >= 3 operands whose operators all have one rank parses *)
(* to the fully right-nested tree.                                         *)
(***************************************************************************)
C5_SameRankRightNested ==
    (Done /\ IsChain(toks) /\ Len(toks) >= 5 /\ SameRank(toks))
    => result = RightNested(toks)

C5_Witness ==
    /\ Done
    /\ toks = <<"a", "-", "b", "+", "c", "-", "d">>
    /\ result = Operation("Sub", Leaf("a"),
                    Operation("Add", Leaf("b"),
                        Operation("Sub", Leaf("c"), Leaf("d"))))

(***************************************************************************)
(* C6. Ties between two operators of equal rank in a o1 b o2 c.            *)
(* As claimed: the later operator o2 is the root.                          *)
(* As the code has it: the earlier operator o1 is the root and o2 is the   *)
(* root of its right child.                                                *)
(***************************************************************************)
IsTie(ts) ==
    /\ IsChain(ts)
    /\ Len(ts) = 5
    /\ precedence(maybe(ts[2])) = precedence(maybe(ts[4]))

C6_LaterOperatorIsRoot ==
    (Done /\ IsTie(toks)) => (result.kind = "Operation" /\ result.op = maybe(toks[4]))

C6_EarlierOperatorIsRoot ==
    (Done /\ IsTie(toks))
    => /\ result.kind = "Operation"
       /\ result.op = maybe(toks[2])
       /\ result.right.kind = "Operation"
       /\ result.right.op = maybe(toks[4])

C6_Witness ==
    /\ Done
    /\ toks = <<"a", "/", "b", "*", "c">>
    /\ result.op = "Div"
    /\ result.right.op = "Mul"

(***************************************************************************)
(* Reading a tree back.                                                    *)
(***************************************************************************)
\* the Leaf values in order: left subtree, then right subtree, through groups
RECURSIVE LeavesOf(_)
LeavesOf(n) ==
    CASE n.kind = "Leaf" -> <<n.val>>
      [] n.kind = "Enclosure" -> LeavesOf(n.inner)
      [] n.kind = "Operation" -> LeavesOf(n.left) \o LeavesOf(n.right)

\* the symbol an operator is written with
SymbolOf(op) ==
    CASE op = "Add" -> "+"
      [] op = "Sub" -> "-"
      [] op = "Mul" -> "*"
      [] op = "Div" -> "/"
      [] op = "Exp" -> "^"

\* the in-order serialisation of a tree
RECURSIVE Ser(_)
Ser(n) ==
    CASE n.kind = "Leaf" -> <<n.val>>
      [] n.kind = "Enclosure" -> <<"(">> \o Ser(n.inner) \o <<")">>
      [] n.kind = "Operation" -> Ser(n.left) \o <<SymbolOf(n.op)>> \o Ser(n.right)

\* the number of nodes of one kind
RECURSIVE CountKind(_, _)
CountKind(n, k) ==
    (IF n.kind = k THEN 1 ELSE 0)
    + CASE n.kind = "Leaf" -> 0
        [] n.kind = "Enclosure" -> CountKind(n.inner, k)
        [] n.kind = "Operation" -> CountKind(n.left, k) + CountKind(n.right, k)

CountTok(ts, S) == Cardinality({i \in 1..Len(ts) : ts[i] \in S})

(***************************************************************************)
(* C2. Groups are preserved and opaque to outside composition: when X      *)
(* parses, ( X ) parses to Group(parse(X)), ( X ) o c parses to            *)
(* Operation(o, Group(parse(X)), Leaf(c)) and a o ( X ) parses to          *)
(* Operation(o, Leaf(a), Group(parse(X))), whatever operators X holds.     *)
(***************************************************************************)
Wrap(x) == <<"(">> \o x \o <<")">>

C2_GroupOpaque ==
    (Done /\ IsTree(result))
    => /\ parse(Wrap(toks)) = Enclosure(result)
       /\ \A o \in OpSymbols, x \in Idents :
             /\ parse(Wrap(toks) \o <<o, x>>)
                    = Operation(maybe(o), Enclosure(result), Leaf(x))
             /\ parse(<<x, o>> \o Wrap(toks))
                    = Operation(maybe(o), Leaf(x), Enclosure(result))

\* the input itself is a group followed by a tighter operator
C2_Witness ==
    /\ Done
    /\ toks = <<"(", "b", "+", "c", ")", "^", "z">>
    /\ result = Operation("Exp",
                    Enclosure(Operation("Add", Leaf("b"), Leaf("c"))),
                    Leaf("z"))
    /\ parse(Wrap(toks)) = Enclosure(result)

(***************************************************************************)
(* C4. The leaves of a returned tree, read left to right, are exactly the  *)
(* tokens of the input that are neither operators nor parentheses, in the  *)
(* original order and verbatim.                                            *)
(***************************************************************************)
C4_LeavesInOrder ==
    (Done /\ IsTree(result)) => LeavesOf(result) = SelectSeq(toks, IsIdent)

\* two rotations took place
C4_Witness ==
    /\ Done
    /\ toks = <<"a", "^", "b", "*", "c", "+", "d">>
    /\ result.kind = "Operation"
    /\ result.left.kind = "Operation"
    /\ LeavesOf(result) = <<"a", "b", "c", "d">>

(***************************************************************************)
(* C10. Round trip: the in-order serialisation of a returned tree is the   *)
(* input token for token; so there are as many Group nodes as "(" tokens,  *)
(* as many Operation nodes as operator tokens, and parsing the             *)
(* serialisation again gives the same tree.                                *)
(***************************************************************************)
C10_RoundTrip ==
    (Done /\ IsTree(result))
    => /\ Ser(result) = toks
       /\ CountKind(result, "Enclosure") = CountTok(toks, {"("})
       /\ CountKind(result, "Operation") = CountTok(toks, OpSymbols)
       /\ parse(Ser(result)) = result

C10_Witness ==
    /\ Done
    /\ toks = <<"a", "/", "(", "b", "-", "c", ")">>
    /\ result = Operation("Div", Leaf("a"),
                    Enclosure(Operation("Sub", Leaf("b"), Leaf("c"))))
    /\ Ser(result) = toks

(***************************************************************************)
(* C9. Precedence ordering of every returned tree: an Operation that is    *)
(* the direct left child of an Operation P binds strictly tighter than P,  *)
(* one that is the direct right child binds at least as tight; and the     *)
(* root is the leftmost operator of minimal precedence among the operators *)
(* outside all groups.                                                     *)
(***************************************************************************)
RECURSIVE PrecedenceOrdered(_)
PrecedenceOrdered(n) ==
    CASE n.kind = "Leaf" -> TRUE
      [] n.kind = "Enclosure" -> PrecedenceOrdered(n.inner)
      [] n.kind = "Operation" ->
            /\ n.left.kind = "Operation"
                  => precedence(n.left.op) > precedence(n.op)
            /\ n.right.kind = "Operation"
                  => precedence(n.right.op) >= precedence(n.op)
            /\ PrecedenceOrdered(n.left)
            /\ PrecedenceOrdered(n.right)

\* how many groups are open just before position i
DepthBefore(ts, i) ==
    Cardinality({j \in 1..(i - 1) : ts[j] = "("})
    - Cardinality({j \in 1..(i - 1) : ts[j] = ")"})

\* the positions of the operators outside all groups
TopOps(ts) == {i \in 1..Len(ts) : maybe(ts[i]) # "None" /\ DepthBefore(ts, i) = 0}

IsLeftmostMinimal(ts, i) ==
    /\ i \in TopOps(ts)
    /\ \A j \in TopOps(ts) :
          \/ precedence(maybe(ts[j])) > precedence(maybe(ts[i]))
          \/ precedence(maybe(ts[j])) = precedence(maybe(ts[i])) /\ j >= i

C9_PrecedenceOrdered ==
    (Done /\ IsTree(result))
    => /\ PrecedenceOrdered(result)
       /\ \A i \in 1..Len(toks) :
             IsLeftmostMinimal(toks, i)
             => /\ result.kind = "Operation"
                /\ result.op = maybe(toks[i])
                /\ Len(Ser(result.left)) = i - 1

C9_Witness ==
    /\ Done
    /\ toks = <<"a", "^", "b", "*", "c", "+", "d">>
    /\ result = Operation("Add",
                    Operation("Mul",
                        Operation("Exp", Leaf("a"), Leaf("b")),
                        Leaf("c")),
                    Leaf("d"))

(***************************************************************************)
(* C3. Every malformed token sequence fails with the documented kind,      *)
(* decided by the first offending position in left-to-right order; parse   *)
(* returns a tree only when no position offends.                           *)
(*                                                                         *)
(* FirstOffence scans the tokens once, left to right, knowing only whether *)
(* a term or an operator is expected and where the enclosing slices end.   *)
(***************************************************************************)
\* the depth after position j of the group opened at position i
DepthFrom(ts, i, j) ==
    Cardinality({k \in i..j : ts[k] = "("}) - Cardinality({k \in i..j : ts[k] = ")"})

\* the places before `end` where the depth of the group opened at i is back to 0
ClosesOf(ts, i, end) == {j \in (i + 1)..(end - 1) : DepthFrom(ts, i, j) = 0}

Least(S) == CHOOSE m \in S : \A k \in S : m <= k

\* i: the position looked at; term: TRUE where a term is expected, FALSE
\* where an operator is; ends: the ends of the enclosing slices, innermost
\* last (Len(ts) + 1 for the whole input, the position of the matching ")"
\* for the interior of a group)
RECURSIVE FirstOffence(_, _, _, _)
FirstOffence(ts, i, term, ends) ==
    IF term
    THEN IF i = Top(ends) THEN EmptyStream
         ELSE IF maybe(ts[i]) # "None" THEN LeadingOperator
         ELSE IF ts[i] = ")" THEN UnmatchedClose
         ELSE IF ts[i] = "("
              THEN IF ClosesOf(ts, i, Top(ends)) = {} THEN UnmatchedOpen
                   ELSE FirstOffence(ts, i + 1, TRUE,
                                     Append(ends, Least(ClosesOf(ts, i, Top(ends)))))
         ELSE FirstOffence(ts, i + 1, FALSE, ends)
    ELSE IF i = Top(ends)
         THEN IF Len(ends) = 1 THEN "none"
              ELSE FirstOffence(ts, i + 1, FALSE, Pop(ends))
         ELSE IF maybe(ts[i]) # "None" THEN FirstOffence(ts, i + 1, TRUE, ends)
         ELSE ExpectedOperator

Offence(ts) == FirstOffence(ts, 1, TRUE, <<Len(ts) + 1>>)

C3_ErrorKinds ==
    Done => IF Offence(toks) = "none"
            THEN IsTree(result)
            ELSE result = Panic(Offence(toks))

\* an unmatched "(" is reported although its interior starts with an operator
C3_Witness ==
    /\ Done
    /\ toks = <<"a", "+", "(", "*", "b">>
    /\ result = Panic(UnmatchedOpen)

\* an offence in the interior of a group is reported before the one after it
C3_InteriorFirst ==
    /\ Done
    /\ toks = <<"(", "a", "b", ")", "+">>
    /\ result = Panic(ExpectedOperator)

(***************************************************************************)
(* C8. The composer contract, for every operator and all trees: if `into`  *)
(* is a Leaf or a Group, or an Operation whose operator binds at least as  *)
(* tight as op, the result is Operation(op, left, into); if `into` is      *)
(* Operation(op2, left2, right2) and op binds tighter than op2, the result *)
(* is Operation(op2, compose(op, left, left2), right2).                    *)
(***************************************************************************)
RECURSIVE Contract(_, _, _)
Contract(op, left, into) ==
    IF into.kind \in {"Leaf", "Enclosure"} THEN Operation(op, left, into)
    ELSE IF precedence(op) <= precedence(into.op) THEN Operation(op, left, into)
    ELSE Operation(into.op, Contract(op, left, into.left), into.right)

C8_ComposerContract ==
    Done => result = Contract(call.op, call.left, call.into)

\* op descends two levels: below Add, then below Mul
C8_Witness ==
    /\ Done
    /\ call.op = "Exp"
    /\ call.left = Leaf("l")
    /\ call.into = Operation("Add",
                       Operation("Mul", Leaf("p"), Leaf("q")),
                       Leaf("p"))
    /\ result = Operation("Add",
                    Operation("Mul",
                        Operation("Exp", Leaf("l"), Leaf("p")),
                        Leaf("q")),
                    Leaf("p"))

(***************************************************************************)
(* The step-by-step execution computes the functions above.                *)
(***************************************************************************)
StepsAgree ==
    Done => result = IF call.fn = "parse"
                     THEN parse(call.toks)
                     ELSE compose_with_precedence(call.op, call.left, call.into)

(***************************************************************************)
(* C7. parse terminates on every finite token sequence, returning a tree   *)
(* or failing: every recursive call of parse receives a slice strictly     *)
(* shorter than its caller's, every recursive call of                      *)
(* compose_with_precedence receives as `into` the left child of its        *)
(* caller's `into`, and every call ends.                                   *)
(***************************************************************************)
\* the number of nodes of a tree
RECURSIVE SizeOf(_)
SizeOf(n) ==
    CASE n.kind = "Leaf" -> 1
      [] n.kind = "Enclosure" -> 1 + SizeOf(n.inner)
      [] n.kind = "Operation" -> 1 + SizeOf(n.left) + SizeOf(n.right)

\* the records of parse on the stack, outermost first
ParseRecords == SelectSeq(stack, LAMBDA f : f.fn = "parse")

RecursionDescends ==
    /\ \A i \in 1..(Len(ParseRecords) - 1) :
          Len(ParseRecords[i + 1].toks) < Len(ParseRecords[i].toks)
    /\ \A i \in 1..(Len(stack) - 1) :
          (stack[i].fn = "compose_with_precedence"
              /\ stack[i + 1].fn = "compose_with_precedence")
          => /\ stack[i].into.kind = "Operation"
             /\ stack[i + 1].into = stack[i].into.left
             /\ SizeOf(stack[i + 1].into) < SizeOf(stack[i].into)

Ended == Done /\ stack = <<>> /\ (IsTree(result) \/ IsPanic(result))

C7_Terminates == []RecursionDescends /\ <>Ended

\* parse three deep: the call, the interior of its group, the rest after "+"
C7_Witness ==
    /\ pc = "run"
    /\ call = ParseCall(<<"(", "b", "+", "c", ")">>)
    /\ Len(ParseRecords) = 3
    /\ ParseRecords[3].toks = <<"c">>

====
